---- MODULE Spec2Model ----
(***************************************************************************)
(* Model of src/index.js: the submitAsyncAction webhook handler, its       *)
(* authMiddleware, the checkQuota read-decide-write against the Firestore   *)
(* subscription record, the artifact upload and the downstream POST.       *)
(* Every await on an external collaborator (Firestore get/update, GCS      *)
(* save, axios.post) is a point where other requests may interleave, so    *)
(* each such await ends one action and its completion starts the next.     *)
(***************************************************************************)
EXTENDS Integers, Sequences, FiniteSets, TLC

\* ---------------------------------------------------------------- bounds
NReq == 2          \* requests that may arrive (and overlap)
MaxBatch == 1      \* largest objectData.length a request carries
MaxQuota == 3      \* largest initial quota of the subscription record

\* ------------------------------------------------------- program constants
serviceCostPerLead == 2

Reqs == 1..NReq

\* Subscription ids a request may carry: one with a Firestore record, one
\* without, and the empty id (falsy in JavaScript).
Records == {"M1"}
Accounts == {"M1", "M9", ""}

\* Values of the x-api-key header. "" stands for an absent or empty header,
\* both falsy at line 43.
Headers == {"", "k1", "false", "[object Object]"}

\* The value of ssfs_account_api_key in the record: <<>> when the field is
\* undefined, <<k>> when it is the string k.
StoredKeys == {<<>>, <<"k1">>}

VARIABLES
    quota,      \* Firestore: subscriptions/<id>.quota
    quota0,     \* the quota each record held before the first request
    apiKey,     \* Firestore: subscriptions/<id>.ssfs_account_api_key
    pc,         \* where each request's handler is suspended
    req,        \* each request's inputs: header, munchkinId, objectData.length
    calls,      \* per request, the store calls its handler issued, in order
    data,       \* checkQuota's local data.quota (the value its get() returned)
    dec,        \* the object checkQuota returned
    resp,       \* status of the response sent on res (0: none yet)
    sends,      \* number of res.status(..).send/json calls made for the request
    now,        \* Date.now()
    filename,   \* the request's generated object key <<munchkinId, timestamp>>
    artifacts,  \* GCS bucket: set of [key, owner] objects
    posts,      \* per request, the paths handed to axios.post, in order
    trace       \* per request, the events of its lifecycle, in order

vars == <<quota, quota0, apiKey, calls, pc, req, data, dec, resp, sends, now, filename,
          artifacts, posts, trace>>

NoReq == [hdr |-> "", acct |-> "", n |-> 0]
NoDecision == [message |-> <<>>, allowed |-> "pending",
               usedQuota |-> <<>>, remainingQuota |-> <<>>]

Init ==
    /\ quota \in [Records -> 0..MaxQuota]
    /\ quota0 = quota
    /\ apiKey \in [Records -> StoredKeys]
    /\ pc = [r \in Reqs |-> "idle"]
    /\ req = [r \in Reqs |-> NoReq]
    /\ calls = [r \in Reqs |-> <<>>]
    /\ data = [r \in Reqs |-> 0]
    /\ dec = [r \in Reqs |-> NoDecision]
    /\ resp = [r \in Reqs |-> 0]
    /\ sends = [r \in Reqs |-> 0]
    /\ now = 0
    /\ filename = [r \in Reqs |-> <<>>]
    /\ artifacts = {}
    /\ posts = [r \in Reqs |-> <<>>]
    /\ trace = [r \in Reqs |-> <<>>]

\* ----------------------------------------------------------- pure helpers

\* JavaScript truthiness of a string header: undefined and "" are falsy.
Falsy(s) == s = ""

\* What getUserApiKey resolves to. kind "object" is the {message: ...}
\* object of lines 181 and 191, kind "false" the boolean false of lines 203
\* and 207, kind "string" the stored key of line 198.
GetUserApiKey(subscriptionId, storeError) ==
    IF Falsy(subscriptionId) THEN [kind |-> "object", val |-> ""]
    ELSE IF storeError THEN [kind |-> "false", val |-> ""]
    ELSE IF subscriptionId \notin Records THEN [kind |-> "object", val |-> ""]
    ELSE IF apiKey[subscriptionId] # <<>>
         THEN [kind |-> "string", val |-> apiKey[subscriptionId][1]]
         ELSE [kind |-> "false", val |-> ""]

\* The store calls getUserApiKey makes: none for a falsy id (lines 180-182),
\* otherwise the get of line 187.
KeyLookupCalls(subscriptionId) ==
    IF Falsy(subscriptionId) THEN <<>> ELSE <<"key.get">>

\* The template literal `${userApiKey}` of line 48: ToString of the value.
TemplateString(v) ==
    CASE v.kind = "string" -> v.val
      [] v.kind = "false"  -> "false"
      [] v.kind = "object" -> "[object Object]"

\* The two tests of authMiddleware, lines 43-51: 0 when next() is called,
\* otherwise the status it responds with.
AuthStatus(authHeader, userApiKey) ==
    IF Falsy(authHeader) THEN 401
    ELSE IF authHeader # TemplateString(userApiKey) THEN 401
    ELSE 0

creditsNeeded(objectCount) == objectCount * serviceCostPerLead

\* The test of line 152 with >= in place of >.
AffordableAtBoundary(q, objectCount) == q >= creditsNeeded(objectCount)

\* The test of line 152 against zero in place of creditsNeeded.
AffordableAnyCredit(q, objectCount) == q > 0

\* The test of line 152.
Affordable(q, objectCount) == q > creditsNeeded(objectCount)

\* !quota.allowed at line 75: undefined and false are both falsy.
Denied(d) == d.allowed # "true"

Upd(f, r, v) == [f EXCEPT ![r] = v]
Log(r, evs) == [trace EXCEPT ![r] = @ \o evs]

\* ------------------------------------------------------------- checkQuota

\* Lines 128-139 without the test of line 136.
CheckQuotaEntryNoEmptyTest(subscriptionId, objectCount) ==
    IF Falsy(subscriptionId)
    THEN [message |-> <<"subscriptionId is required">>, allowed |-> "undefined",
          usedQuota |-> <<>>, remainingQuota |-> <<>>]
    ELSE NoDecision

\* Lines 128-139: what checkQuota returns before any store call, or
\* NoDecision when it goes on to quotaDoc.get(). The object of line 129 has
\* no allowed field.
CheckQuotaEntry(subscriptionId, objectCount) ==
    IF Falsy(subscriptionId)
    THEN [message |-> <<"subscriptionId is required">>, allowed |-> "undefined",
          usedQuota |-> <<>>, remainingQuota |-> <<>>]
    ELSE IF objectCount < 1
    THEN [message |-> <<"At least one object is required">>, allowed |-> "false",
          usedQuota |-> <<>>, remainingQuota |-> <<>>]
    ELSE NoDecision

\* Lines 144-147 answering with the message of line 168.
NotFoundAsStoreError ==
    [message |-> <<"Internal Server Error">>, allowed |-> "false",
     usedQuota |-> <<>>, remainingQuota |-> <<>>]

\* Lines 144-147.
NotFoundDecision ==
    [message |-> <<"ID not found">>, allowed |-> "false",
     usedQuota |-> <<>>, remainingQuota |-> <<>>]

\* Lines 166-169 returning, like line 129, an object without allowed.
StoreErrorNoFlag ==
    [message |-> <<"Internal Server Error">>, allowed |-> "undefined",
     usedQuota |-> <<>>, remainingQuota |-> <<>>]

\* Lines 166-169.
StoreErrorDecision ==
    [message |-> <<"Internal Server Error">>, allowed |-> "false",
     usedQuota |-> <<>>, remainingQuota |-> <<>>]

\* Line 153 subtracting the object count in place of the credits needed.
updatedQuotaPerObject(q, objectCount) == q - objectCount

\* Lines 153-157. updatedQuota is computed from the value read, not from
\* the value stored at the time of the update.
updatedQuota(q, objectCount) == q - creditsNeeded(objectCount)

SuccessDecision(q, objectCount) ==
    [message |-> <<"Success">>, allowed |-> "true",
     usedQuota |-> <<creditsNeeded(objectCount)>>,
     remainingQuota |-> <<updatedQuota(q, objectCount)>>]

\* Lines 158-165. The message quotes objectCount and the quotient
\* data.quota / serviceCostPerLead, kept here as numerator and denominator.
ExceededDecision(q, objectCount) ==
    [message |-> <<"Quota exceeded", objectCount, q, serviceCostPerLead>>,
     allowed |-> "false", usedQuota |-> <<>>, remainingQuota |-> <<q>>]

\* ------------------------------------------------------------ the handler

\* res.status(s).send(..) / .json(..): the first call fixes the status the
\* caller sees; every call is counted.
Respond(r, s) ==
    /\ resp' = Upd(resp, r, IF resp[r] = 0 THEN s ELSE resp[r])
    /\ sends' = Upd(sends, r, sends[r] + 1)

\* Line 52: authMiddleware calls next() without awaiting or returning its
\* promise, so a rejection inside the callback (lines 85, 108) never reaches
\* the catch of lines 112-115: nothing is sent on res.
NextRejects(r) == UNCHANGED <<resp, sends>>

\* Lines 76-78 without the return: the handler answers 403 and goes on to
\* line 81.
ForbidNoReturn(r, d) ==
    /\ dec' = Upd(dec, r, d)
    /\ Respond(r, 403)
    /\ pc' = Upd(pc, r, "save")

\* Lines 75-79 for the decision d that checkQuota returned to request r.
Forbid(r, d) ==
    /\ Denied(d)
    /\ dec' = Upd(dec, r, d)
    /\ Respond(r, 403)
    /\ pc' = Upd(pc, r, "done")

\* Lines 45 and 50 without the return: 401 is sent and next() is called.
RejectNoReturn(r, status) ==
    /\ Respond(r, status)
    /\ trace' = Log(r, <<"auth", "checkQuota">>)
    /\ pc' = Upd(pc, r, "quotaGet")
    /\ UNCHANGED dec

\* Lines 43-51: authMiddleware answers 401 and returns without calling
\* next().
Reject(r, status) ==
    /\ Respond(r, status)
    /\ pc' = Upd(pc, r, "done")
    /\ UNCHANGED <<dec, trace>>

\* Lines 36-39 for a body without context.subscription: line 39 throws
\* inside authMiddleware, the await of line 58 rejects and lines 112-115
\* answer 500.
ReceiveMalformed(r) ==
    /\ pc[r] = "idle"
    /\ (IF r = 1 THEN TRUE ELSE pc[r - 1] # "idle")
    /\ Respond(r, 500)
    /\ pc' = Upd(pc, r, "done")
    /\ UNCHANGED <<quota, quota0, apiKey, calls, req, data, dec, now, filename,
                   artifacts, posts, trace>>

\* A well-formed request goes through authMiddleware (lines 33-53):
\* getUserApiKey resolves, the header is tested and on success next() runs
\* up to the first store call of checkQuota (lines 60-72, 128-142). The
\* only store access here reads ssfs_account_api_key, which nothing writes,
\* so the step is taken as one. The batch is first looked at on line 134,
\* so its length is drawn only for a request that gets there; a request
\* answered 401 keeps n = 0. maxN is the largest batch length drawn.
AuthMiddlewareUpTo(r, maxN) ==
    /\ pc[r] = "idle"
    /\ (IF r = 1 THEN TRUE ELSE pc[r - 1] # "idle")
    /\ \E h \in Headers, a \in Accounts, storeError \in BOOLEAN :
         LET userApiKey == GetUserApiKey(a, storeError)
             status == AuthStatus(h, userApiKey)
         IN  IF status # 0
             THEN /\ req' = Upd(req, r, [hdr |-> h, acct |-> a, n |-> 0])
                  /\ calls' = Upd(calls, r, KeyLookupCalls(a))
                  /\ Reject(r, status)
             ELSE \E n \in 0..maxN :
                  LET early == CheckQuotaEntry(a, n) IN
                  /\ req' = Upd(req, r, [hdr |-> h, acct |-> a, n |-> n])
                  /\ trace' = Log(r, <<"auth", "checkQuota">>)
                  /\ IF early # NoDecision
                     THEN /\ calls' = Upd(calls, r, KeyLookupCalls(a))
                          /\ Forbid(r, early)
                     ELSE /\ calls' = Upd(calls, r,
                                         KeyLookupCalls(a) \o <<"quota.get">>)
                          /\ pc' = Upd(pc, r, "quotaGet")
                          /\ UNCHANGED <<dec, resp, sends>>
    /\ UNCHANGED <<quota, quota0, apiKey, data, now, filename, artifacts, posts>>

AuthMiddleware(r) == AuthMiddlewareUpTo(r, MaxBatch)

\* quotaDoc.get() resolves or rejects (lines 142-165); when the quota
\* suffices the update of line 154 is issued.
CheckQuotaRead(r) ==
    /\ pc[r] = "quotaGet"
    /\ \E storeError \in BOOLEAN :
         IF storeError
         THEN /\ Forbid(r, StoreErrorDecision)
              /\ trace' = Log(r, <<"getFailed">>)
              /\ UNCHANGED <<data, calls>>
         ELSE IF req[r].acct \notin Records
         THEN /\ Forbid(r, NotFoundDecision)
              /\ trace' = Log(r, <<"notFound">>)
              /\ UNCHANGED <<data, calls>>
         ELSE LET q == quota[req[r].acct] IN
              /\ data' = Upd(data, r, q)
              /\ trace' = Log(r, <<"read">>)
              /\ IF Affordable(q, req[r].n)
                 THEN /\ calls' = Upd(calls, r, Append(calls[r], "quota.update"))
                      /\ pc' = Upd(pc, r, "quotaUpdate")
                      /\ UNCHANGED <<dec, resp, sends>>
                 ELSE /\ Forbid(r, ExceededDecision(q, req[r].n))
                      /\ UNCHANGED calls
    /\ UNCHANGED <<quota, quota0, apiKey, req, now, filename, artifacts, posts>>

\* quotaDoc.update() resolves or rejects (lines 154-157, 166-169); on
\* success the handler goes on to lines 73-85: the object key is generated
\* from Date.now() and file.save is issued.
CheckQuotaUpdate(r) ==
    /\ pc[r] = "quotaUpdate"
    /\ \E storeError \in BOOLEAN :
         IF storeError
         THEN /\ Forbid(r, StoreErrorDecision)
              /\ trace' = Log(r, <<"updateFailed">>)
              /\ UNCHANGED <<quota, now, filename, calls>>
         ELSE /\ quota' = [quota EXCEPT
                    ![req[r].acct] = updatedQuota(data[r], req[r].n)]
              /\ dec' = Upd(dec, r, SuccessDecision(data[r], req[r].n))
              /\ trace' = Log(r, <<"debit">>)
              /\ \E t \in {now, now + 1} :
                    /\ now' = t
                    /\ filename' = Upd(filename, r, <<req[r].acct, t>>)
              /\ calls' = Upd(calls, r, Append(calls[r], "file.save"))
              /\ pc' = Upd(pc, r, "save")
              /\ UNCHANGED <<resp, sends>>
    /\ UNCHANGED <<quota0, apiKey, req, data, artifacts, posts>>

\* Line 85 followed at once by line 108: the POST is issued before the
\* acknowledgement of line 102.
SaveDoneNotifyFirst(r) ==
    /\ pc[r] = "save"
    /\ artifacts' = {a \in artifacts : a.key # filename[r]}
                       \cup {[key |-> filename[r], owner |-> r]}
    /\ posts' = Upd(posts, r, Append(posts[r], filename[r]))
    /\ trace' = Log(r, <<"artifact", "post">>)
    /\ pc' = Upd(pc, r, "ack")
    /\ UNCHANGED <<quota, quota0, apiKey, calls, req, data, dec, resp, sends, now, filename>>

\* file.save resolves (line 85): the object is stored under the key,
\* replacing any object already there.
SaveDone(r) ==
    /\ pc[r] = "save"
    /\ artifacts' = {a \in artifacts : a.key # filename[r]}
                       \cup {[key |-> filename[r], owner |-> r]}
    /\ trace' = Log(r, <<"artifact">>)
    /\ pc' = Upd(pc, r, "ack")
    /\ UNCHANGED <<quota, quota0, apiKey, calls, req, data, dec, resp, sends, now, filename,
                   posts>>

\* file.save rejects (line 85).
SaveFail(r) ==
    /\ pc[r] = "save"
    /\ NextRejects(r)
    /\ trace' = Log(r, <<"saveFailed">>)
    /\ pc' = Upd(pc, r, "done")
    /\ UNCHANGED <<quota, quota0, apiKey, calls, req, data, dec, now, filename, artifacts,
                   posts>>

\* Line 108 ahead of line 102: the POST is issued and awaited before the
\* acknowledgement is sent.
AckAwaitsNotify(r) ==
    /\ pc[r] = "ack"
    /\ posts' = Upd(posts, r, Append(posts[r], filename[r]))
    /\ trace' = Log(r, <<"post">>)
    /\ pc' = Upd(pc, r, "notifyThenAck")
    /\ UNCHANGED <<quota, quota0, apiKey, calls, req, data, dec, resp, sends, now, filename,
                   artifacts>>

\* Line 102: the acknowledgement.
Ack(r) ==
    /\ pc[r] = "ack"
    /\ Respond(r, 201)
    /\ trace' = Log(r, <<"ack201">>)
    /\ pc' = Upd(pc, r, "post")
    /\ UNCHANGED <<quota, quota0, apiKey, calls, req, data, dec, now, filename, artifacts,
                   posts>>

\* Line 108: axios.post is issued with the payload of lines 96-100.
Post(r) ==
    /\ pc[r] = "post"
    /\ posts' = Upd(posts, r, Append(posts[r], filename[r]))
    /\ trace' = Log(r, <<"post">>)
    /\ pc' = Upd(pc, r, "notify")
    /\ UNCHANGED <<quota, quota0, apiKey, calls, req, data, dec, resp, sends, now, filename,
                   artifacts>>

\* Lines 108-111 with one retry: a rejected axios.post is issued again.
NotifyDoneRetry(r) ==
    /\ pc[r] = "notify"
    /\ \/ /\ trace' = Log(r, <<"notifyOk">>)
          /\ pc' = Upd(pc, r, "done")
          /\ UNCHANGED posts
       \/ /\ trace' = Log(r, <<"notifyFailed">>)
          /\ IF Len(posts[r]) < 2
             THEN /\ posts' = Upd(posts, r, Append(posts[r], filename[r]))
                  /\ UNCHANGED pc
             ELSE /\ pc' = Upd(pc, r, "done")
                  /\ UNCHANGED posts
    /\ UNCHANGED <<quota, quota0, apiKey, calls, req, data, dec, resp, sends, now,
                   filename, artifacts>>

\* axios.post resolves or rejects (lines 108-111). It may also never do so.
NotifyDone(r) ==
    /\ pc[r] = "notify"
    /\ \/ trace' = Log(r, <<"notifyOk">>) /\ UNCHANGED <<resp, sends>>
       \/ trace' = Log(r, <<"notifyFailed">>) /\ NextRejects(r)
    /\ pc' = Upd(pc, r, "done")
    /\ UNCHANGED <<quota, quota0, apiKey, calls, req, data, dec, now, filename, artifacts,
                   posts>>

Next ==
    \E r \in Reqs :
        \/ ReceiveMalformed(r)
        \/ AuthMiddleware(r)
        \/ CheckQuotaRead(r)
        \/ CheckQuotaUpdate(r)
        \/ SaveDone(r)
        \/ SaveFail(r)
        \/ Ack(r)
        \/ Post(r)
        \/ NotifyDone(r)

Spec == Init /\ [][Next]_vars

\* The handler's continuation at line 102 runs once the promise of line 85
\* has resolved (the event loop runs every ready continuation); the
\* collaborators (Firestore, GCS, the downstream service) are under no
\* obligation to answer. The records start with the full quota, so that
\* requests get as far as the acknowledgement.
InitFunded ==
    /\ Init
    /\ \A a \in Records : quota[a] = MaxQuota

FairSpec ==
    /\ InitFunded /\ [][Next]_vars
    /\ \A r \in Reqs : WF_vars(Ack(r))

\* Sequential execution: a request is taken up only while no checkQuota
\* call of another request is between its get and the end of its update.
InCheckQuota(r) == pc[r] \in {"quotaGet", "quotaUpdate"}

SeqNext ==
    \E r \in Reqs :
        \/ (\A o \in Reqs : ~InCheckQuota(o)) /\ ReceiveMalformed(r)
        \/ (\A o \in Reqs : ~InCheckQuota(o)) /\ AuthMiddleware(r)
        \/ CheckQuotaRead(r)
        \/ CheckQuotaUpdate(r)
        \/ SaveDone(r)
        \/ SaveFail(r)
        \/ Ack(r)
        \/ Post(r)
        \/ NotifyDone(r)

SeqSpec == Init /\ [][SeqNext]_vars

\* The same handler with one more batch length and two more units of
\* initial quota, so that two overlapping debits can differ in cost.
WideInit ==
    /\ quota \in [Records -> 0..(MaxQuota + serviceCostPerLead)]
    /\ quota0 = quota
    /\ apiKey \in [Records -> StoredKeys]
    /\ pc = [r \in Reqs |-> "idle"]
    /\ req = [r \in Reqs |-> NoReq]
    /\ calls = [r \in Reqs |-> <<>>]
    /\ data = [r \in Reqs |-> 0]
    /\ dec = [r \in Reqs |-> NoDecision]
    /\ resp = [r \in Reqs |-> 0]
    /\ sends = [r \in Reqs |-> 0]
    /\ now = 0
    /\ filename = [r \in Reqs |-> <<>>]
    /\ artifacts = {}
    /\ posts = [r \in Reqs |-> <<>>]
    /\ trace = [r \in Reqs |-> <<>>]

WideNext ==
    \E r \in Reqs :
        \/ ReceiveMalformed(r)
        \/ AuthMiddlewareUpTo(r, MaxBatch + 1)
        \/ CheckQuotaRead(r)
        \/ CheckQuotaUpdate(r)
        \/ SaveDone(r)
        \/ SaveFail(r)
        \/ Ack(r)
        \/ Post(r)
        \/ NotifyDone(r)

WideSpec == WideInit /\ [][WideNext]_vars

\* ------------------------------------------------------------ properties

Has(r, e) == \E i \in 1..Len(trace[r]) : trace[r][i] = e

Cost(r) == req[r].n * serviceCostPerLead

Allowed(r) == dec[r].allowed = "true"

\* checkQuota has returned for r after reading the record, and no store
\* call of it failed.
Decided(r) ==
    /\ Has(r, "read")
    /\ dec[r] # NoDecision
    /\ ~Has(r, "updateFailed")

RECURSIVE SumUsed(_, _)
\* Sum of usedQuota over the requests of S on record a that were allowed.
SumUsed(S, a) ==
    IF S = {} THEN 0
    ELSE LET r == CHOOSE x \in S : TRUE
         IN  (IF req[r].acct = a /\ Allowed(r) THEN dec[r].usedQuota[1] ELSE 0)
                + SumUsed(S \ {r}, a)

\* C1: a checkQuota call that read quota Q for a batch of n >= 1 (no store
\* error) returns allowed=true iff Q > n*serviceCostPerLead; Q is the
\* stored quota at the read, and a denied call (Q == n*c included) writes
\* nothing: the quota stays Q and the decision reports remainingQuota Q.
C1_AllowedIffStrictlyAbove ==
    /\ [](\A r \in Reqs : Decided(r) =>
            /\ req[r].n >= 1
            /\ Allowed(r) <=> (data[r] > Cost(r))
            /\ ~Allowed(r) =>
                  /\ dec[r].allowed = "false"
                  /\ dec[r].remainingQuota = <<data[r]>>
                  /\ ~Has(r, "debit"))
    /\ [][\A r \in Reqs : pc[r] = "quotaGet" /\ Has(r, "read")' =>
            /\ data'[r] = quota[req[r].acct]
            /\ pc'[r] = "done" => quota' = quota]_vars

\* C1 witness: a call that read exactly n*c was denied and the record
\* still holds that quota.
C1_Witness ==
    \E r \in Reqs : /\ Decided(r) /\ req[r].n >= 1
                    /\ data[r] = Cost(r) /\ ~Allowed(r)
                    /\ quota[req[r].acct] = data[r]

\* C2: two calls on the same record whose batches each fit the initial
\* quota Q but whose combined cost exceeds Q are never both allowed.
C2_NeverBothAllowed ==
    \A r1, r2 \in Reqs :
        ( /\ r1 # r2
          /\ req[r1].acct \in Records
          /\ req[r1].acct = req[r2].acct
          /\ req[r1].n >= 1 /\ req[r2].n >= 1
          /\ quota0[req[r1].acct] > Cost(r1)
          /\ quota0[req[r1].acct] > Cost(r2)
          /\ Cost(r1) + Cost(r2) > quota0[req[r1].acct] )
        => ~(Allowed(r1) /\ Allowed(r2))

\* C3: once no checkQuota call is in flight, the stored quota equals the
\* initial quota minus the usedQuota of every allowed call.
C3_NoLostDebit ==
    (\A r \in Reqs : pc[r] \notin {"quotaGet", "quotaUpdate"}) =>
        \A a \in Records : quota[a] = quota0[a] - SumUsed(Reqs, a)

\* C4: the stored quota of a record that started non-negative is never
\* negative.
C4_QuotaNonNegative ==
    \A a \in Records : quota0[a] >= 0 => quota[a] >= 0

\* C4 witness: two calls read the same quota, both debited it, and the
\* record still holds a non-negative quota.
C4_Witness ==
    \E r1, r2 \in Reqs :
        /\ r1 # r2
        /\ req[r1].acct = req[r2].acct
        /\ Has(r1, "debit") /\ Has(r2, "debit")
        /\ data[r1] = data[r2]
        /\ quota[req[r1].acct] >= 0

\* The lifecycle events of request r, in the order they happened.
Lifecycle(r) ==
    SelectSeq(trace[r],
              LAMBDA e : e \in {"auth", "debit", "artifact", "ack201", "post"})

FullLifecycle == <<"auth", "debit", "artifact", "ack201", "post">>

Wrote(r) == \E a \in artifacts : a.owner = r

\* C5: next() is called only for a request whose x-api-key equals the
\* credential stored in the record of its account; with no record, an empty
\* account id or no credential set, every presented value is rejected.
C5_AcceptsOnlyExactMatch ==
    \A r \in Reqs : Has(r, "auth") =>
        /\ req[r].acct \in Records
        /\ apiKey[req[r].acct] = <<req[r].hdr>>

\* C6: a well-formed request that authMiddleware does not pass on gets 401,
\* and a request answered 401 has no side effect: checkQuota is never
\* invoked, nothing is debited, written or posted, and the step answering
\* 401 and every later step leave the request and the stores alone.
C6_RejectedNoSideEffects ==
    /\ [](\A r \in Reqs :
            /\ (pc[r] # "idle" /\ ~Has(r, "auth") /\ resp[r] # 500)
                   => resp[r] = 401
            /\ resp[r] = 401 =>
                  /\ pc[r] = "done" /\ sends[r] = 1
                  /\ trace[r] = <<>>
                  /\ dec[r] = NoDecision
                  /\ filename[r] = <<>> /\ ~Wrote(r)
                  /\ posts[r] = <<>>)
    /\ [][\A r \in Reqs : (resp[r] # 401 /\ resp'[r] = 401) =>
            /\ quota' = quota
            /\ artifacts' = artifacts
            /\ posts' = posts]_vars

\* C6 witness: a request with a wrong key for a record that has one was
\* answered 401.
C6_Witness ==
    \E r \in Reqs :
        /\ resp[r] = 401
        /\ req[r].acct \in Records
        /\ req[r].hdr # ""
        /\ apiKey[req[r].acct] # <<>>
        /\ apiKey[req[r].acct] # <<req[r].hdr>>

\* checkQuota denied r for insufficient quota: it read Q <= n*c.
Insufficient(r) ==
    /\ Has(r, "read")
    /\ dec[r] # NoDecision
    /\ data[r] <= Cost(r)

\* C7: a request denied for insufficient quota (it read Q <= n*c) is
\* answered 403, its decision reports remainingQuota Q, it writes no
\* artifact and posts nothing, and the denying step leaves the stored
\* quota at Q.
C7_DeniedLeavesQuota ==
    /\ [](\A r \in Reqs : Insufficient(r) =>
            /\ resp[r] = 403 /\ sends[r] = 1 /\ pc[r] = "done"
            /\ dec[r].allowed = "false"
            /\ dec[r].remainingQuota = <<data[r]>>
            /\ ~Has(r, "debit")
            /\ filename[r] = <<>> /\ ~Wrote(r)
            /\ posts[r] = <<>>)
    /\ [][\A r \in Reqs : (~Insufficient(r) /\ Insufficient(r)') =>
            /\ data'[r] = quota[req[r].acct]
            /\ quota' = quota
            /\ artifacts' = artifacts
            /\ posts' = posts]_vars

\* C7 witness: an authenticated request with a non-empty batch was denied
\* on a quota that does not exceed its cost.
C7_Witness ==
    \E r \in Reqs :
        /\ Insufficient(r) /\ req[r].n >= 1
        /\ resp[r] = 403
        /\ quota[req[r].acct] = data[r]

\* C8: the lifecycle events of a request happen in the order auth accepted,
\* quota debited, artifact written, 201 sent, POST issued, each only after
\* all earlier ones; the 201 is the response exactly when the ack happened.
C8_LifecycleOrder ==
    \A r \in Reqs :
        /\ Len(Lifecycle(r)) <= Len(FullLifecycle)
        /\ Lifecycle(r) = SubSeq(FullLifecycle, 1, Len(Lifecycle(r)))
        /\ Has(r, "ack201") <=> resp[r] = 201
        /\ Has(r, "debit") <=> Allowed(r)
        /\ Has(r, "post") <=> posts[r] # <<>>
        /\ Has(r, "ack201") => filename[r] # <<>>
        /\ Has(r, "post") => posts[r] = <<filename[r]>>

\* C8 witness: a request went through the whole lifecycle.
C8_Witness ==
    \E r \in Reqs : Lifecycle(r) = FullLifecycle /\ resp[r] = 201

\* C9: every request that has finished got exactly one response, no request
\* ever gets a second one, and a request whose notification failed keeps
\* its 201 as the only response.
C9_ExactlyOneResponse ==
    \A r \in Reqs :
        /\ sends[r] <= 1
        /\ pc[r] = "done" => sends[r] = 1
        /\ Has(r, "notifyFailed") => resp[r] = 201 /\ sends[r] = 1

\* C10: once the artifact write of a request has completed, the request
\* eventually gets its 201, and whenever the notification is pending or
\* settled the 201 has already been sent.
C10_AckNeverWaits ==
    /\ [](\A r \in Reqs : pc[r] = "notify" \/ Has(r, "post") => resp[r] = 201)
    /\ \A r \in Reqs : Has(r, "artifact") ~> (resp[r] = 201)

\* C10 witness: a request holds its 201 while its notification is still
\* outstanding.
C10_Witness ==
    \E r \in Reqs : pc[r] = "notify" /\ resp[r] = 201 /\ Has(r, "artifact")

\* C11: in sequential execution an allowed call on quota Q with batch n
\* returns usedQuota n*c and remainingQuota Q - n*c, the stored quota then
\* equals that remainingQuota, and every call reads the initial quota minus
\* the debits of the calls before it.
C11_SequentialDebit ==
    /\ [](\A r \in Reqs :
            /\ Allowed(r) =>
                  /\ dec[r].usedQuota = <<Cost(r)>>
                  /\ dec[r].remainingQuota = <<data[r] - Cost(r)>>
            /\ Has(r, "read") =>
                  data[r] = quota0[req[r].acct] - SumUsed(1..(r - 1), req[r].acct))
    /\ [][\A r \in Reqs : (~Allowed(r) /\ Allowed(r)') =>
            /\ dec'[r].remainingQuota = <<quota[req[r].acct] - Cost(r)>>
            /\ quota'[req[r].acct] = dec'[r].remainingQuota[1]]_vars

\* C11 witness: a first call was allowed and debited the record, and the
\* next call, whose batch the initial quota would have covered, was decided
\* against the lower quota and denied.
C11_Witness ==
    \E r1, r2 \in Reqs :
        /\ r1 < r2
        /\ req[r1].acct = req[r2].acct
        /\ Allowed(r1)
        /\ Has(r2, "read") /\ dec[r2] # NoDecision
        /\ data[r2] = dec[r1].remainingQuota[1]
        /\ quota0[req[r2].acct] > Cost(r2)
        /\ ~Allowed(r2)

Called(r, c) == \E i \in 1..Len(calls[r]) : calls[r][i] = c

\* checkQuota was called for r with an empty batch and has returned.
EmptyBatchCall(r) ==
    /\ Has(r, "checkQuota")
    /\ req[r].n = 0
    /\ dec[r] # NoDecision

\* What the empty-batch decision and its handling look like.
EmptyBatchDenied(r) ==
    /\ dec[r].allowed = "false"
    /\ dec[r].message = <<"At least one object is required">>
    /\ ~Called(r, "quota.get") /\ ~Called(r, "quota.update")
    /\ resp[r] = 403 /\ sends[r] = 1
    /\ ~Called(r, "file.save") /\ ~Wrote(r)

\* C12 as stated: every checkQuota call with an empty batch returns
\* allowed=false with 'At least one object is required', makes no store
\* call, and the request gets 403 with no artifact.
C12_EmptyBatchAlways ==
    \A r \in Reqs : EmptyBatchCall(r) => EmptyBatchDenied(r)

\* C12 amended: the same for every call with a non-empty subscription id,
\* whatever the quota and whether or not the id has a record.
C12_EmptyBatchWithId ==
    \A r \in Reqs : (EmptyBatchCall(r) /\ req[r].acct # "") => EmptyBatchDenied(r)

\* C12 witness: an empty batch was denied on a record whose quota would
\* cover a batch, and the quota is untouched.
C12_Witness ==
    \E r \in Reqs :
        /\ EmptyBatchCall(r) /\ req[r].acct \in Records
        /\ quota[req[r].acct] > serviceCostPerLead
        /\ quota[req[r].acct] = quota0[req[r].acct]
        /\ resp[r] = 403

\* Request r carries a subscription id that has no record.
UnknownId(r) ==
    /\ pc[r] # "idle"
    /\ req[r].acct # ""
    /\ req[r].acct \notin Records

\* C13: for a request whose subscription id has no record, checkQuota with
\* a non-empty batch (its get answered) returns allowed=false with 'ID not
\* found' and the request gets 403; whatever header it presents, the
\* request issues no update and no file.save, writes no artifact, posts
\* nothing, and none of its steps changes a record or the bucket.
C13_UnknownIdNeverPersists ==
    /\ [](\A r \in Reqs : UnknownId(r) =>
            /\ ~Called(r, "quota.update") /\ ~Called(r, "file.save")
            /\ filename[r] = <<>> /\ ~Wrote(r)
            /\ posts[r] = <<>>
            /\ resp[r] \in {0, 401, 403}
            /\ (Has(r, "checkQuota") /\ req[r].n >= 1 /\ dec[r] # NoDecision
                  /\ ~Has(r, "getFailed"))
                 => /\ dec[r].allowed = "false"
                    /\ dec[r].message = <<"ID not found">>
                    /\ resp[r] = 403)
    /\ [][\A r \in Reqs : (UnknownId(r)' /\ pc'[r] # pc[r]) =>
            /\ quota' = quota
            /\ apiKey' = apiKey
            /\ artifacts' = artifacts]_vars

\* C13 witness: a request for an id without a record passed authentication
\* with a non-empty batch and was answered 'ID not found'.
C13_Witness ==
    \E r \in Reqs :
        /\ UnknownId(r) /\ Has(r, "auth") /\ req[r].n >= 1
        /\ dec[r].message = <<"ID not found">>
        /\ resp[r] = 403

\* A store call of r's checkQuota failed.
QuotaStoreError(r) == Has(r, "getFailed") \/ Has(r, "updateFailed")

\* C14: a store error on the get or on the update of checkQuota gives the
\* decision allowed=false, 'Internal Server Error'; the request is answered
\* 403 and nothing else, issues no file.save, writes no artifact and posts
\* nothing.
C14_StoreErrorIsDenied ==
    \A r \in Reqs : QuotaStoreError(r) =>
        /\ dec[r].allowed = "false"
        /\ dec[r].message = <<"Internal Server Error">>
        /\ resp[r] = 403 /\ sends[r] = 1 /\ pc[r] = "done"
        /\ ~Called(r, "file.save") /\ filename[r] = <<>> /\ ~Wrote(r)
        /\ posts[r] = <<>>

\* C14 witness: one request was denied on a failed get and another on a
\* failed update.
C14_Witness ==
    \E r1, r2 \in Reqs :
        /\ Has(r1, "getFailed") /\ resp[r1] = 403
        /\ Has(r2, "updateFailed") /\ resp[r2] = 403

\* C15: a request whose artifact write failed is answered 500, gets no 201
\* and issues no notification.
C15_SaveFailureAnswers500 ==
    \A r \in Reqs : Has(r, "saveFailed") =>
        /\ resp[r] = 500
        /\ ~Has(r, "ack201")
        /\ posts[r] = <<>>

\* C16: no two requests write their artifact under the same key.
C16_WriteOnce ==
    \A r1, r2 \in Reqs :
        (r1 # r2 /\ Has(r1, "artifact") /\ Has(r2, "artifact"))
            => filename[r1] # filename[r2]

\* C17: a request issues at most one POST; one that was answered 401, 403
\* or 500, or not answered, has issued none; one that was answered 201 and
\* is past line 108 has issued exactly one, also after that POST failed;
\* and the POST carries the key under which the same request stored its
\* artifact.
C17_OnePostPerAck ==
    \A r \in Reqs :
        /\ Len(posts[r]) <= 1
        /\ resp[r] \in {0, 401, 403, 500} => posts[r] = <<>>
        /\ (resp[r] = 201 /\ pc[r] \in {"notify", "done"}) => Len(posts[r]) = 1
        /\ posts[r] # <<>> =>
              /\ resp[r] = 201
              /\ Has(r, "artifact")
              /\ posts[r][1] = filename[r]
              /\ filename[r][1] = req[r].acct
              /\ \E a \in artifacts : a.key = posts[r][1]

\* C17 witness: a request's only POST failed and the request is finished
\* with that single attempt.
C17_Witness ==
    \E r \in Reqs :
        /\ Has(r, "notifyFailed") /\ pc[r] = "done"
        /\ resp[r] = 201
        /\ Len(posts[r]) = 1

\* Request r carried an empty subscription id through authMiddleware.
EmptyId(r) == pc[r] # "idle" /\ resp[r] # 500 /\ req[r].acct = ""

\* What holds of a request with an empty id apart from the allowed field:
\* no store call at all, and the request is not accepted.
EmptyIdNotAccepted(r) ==
    /\ calls[r] = <<>>
    /\ ~Has(r, "debit") /\ filename[r] = <<>> /\ ~Wrote(r) /\ posts[r] = <<>>
    /\ resp[r] \in {401, 403}

\* C18: for an empty subscription id checkQuota returns at once a decision
\* whose allowed field is false, neither getUserApiKey nor checkQuota calls
\* the store, and the request is not accepted.
C18_EmptyIdFailsFast ==
    \A r \in Reqs : EmptyId(r) =>
        /\ EmptyIdNotAccepted(r)
        /\ Has(r, "checkQuota") => dec[r].allowed = "false"

\* C19: a request whose artifact write failed after its debit ends with
\* 500, and its debit stands: checkQuota allowed it, the update was applied
\* and the request issued no second update.
C19_FailedWriteKeepsDebit ==
    \A r \in Reqs : Has(r, "saveFailed") =>
        /\ resp[r] = 500 /\ pc[r] = "done"
        /\ Allowed(r) /\ Has(r, "debit")
        /\ Len(SelectSeq(calls[r], LAMBDA c : c = "quota.update")) = 1

\* C20: no step raises the stored quota of a record.
C20_QuotaNeverRises ==
    [][\A a \in Records : quota'[a] <= quota[a]]_vars
====
